---- MODULE Spec2Model ----
(***************************************************************************)
(* Model of src/networking/tcp.rs: the TCP SYN probe builder               *)
(* (Tcp::build_syn_packet, Tcp::send_syn_packet) at byte level, together   *)
(* with the transport engine and the match-specification evaluator it      *)
(* delegates to.                                                           *)
(*                                                                         *)
(* Buffers are sequences of bytes (0..255); offset k of the Rust slice is  *)
(* element k+1 of the sequence.  A u16 is a number in 0..65535.  A u32 is  *)
(* a pair <<high 16 bits, low 16 bits>>, because TLC's integers are        *)
(* 32-bit signed.  An Ipv4Addr is its four octets.                         *)
(***************************************************************************)
EXTENDS Integers, Sequences, FiniteSets, TLC

(* State.                                                                  *)
(*   args     the arguments of the calls (value, src_ip, src_port,         *)
(*            dest_ip, dest_port), tcp.rs lines 30-34 and 72-78            *)
(*   built    the last two direct calls of build_syn_packet: the values    *)
(*            the rng gave and what the call returned                      *)
(*   pc       where send_syn_packet stands: idle, engine (inside           *)
(*            send_and_receive), engine_done, returned, panicked           *)
(*   packet, layer   the locals of lines 80 and 97                         *)
(*   rnd      what the rng gave to the build of line 80                    *)
(*   engine_invocations, engine_args, engine_ret   the calls of            *)
(*            send_and_receive made by the current send_syn_packet, the    *)
(*            arguments of the last one, and its answer (line 101-102)     *)
(*   last_frame, last_verdict   the inbound frame the engine's receive     *)
(*            loop evaluated last, and what the evaluator said of it       *)
(*   result, log   what send_syn_packet returned and logged (105-117)      *)
VARIABLES args, built, pc, packet, layer, engine_invocations,
          engine_args, last_frame, last_verdict, engine_ret,
          result, log, rnd

vars == <<args, built, pc, packet, layer, engine_invocations,
          engine_args, last_frame, last_verdict, engine_ret,
          result, log, rnd>>

-----------------------------------------------------------------------------
(* Program constants.                                                      *)

IPV4_HEADER_SIZE == 20
TCP_HEADER_SIZE == 20
TCP_DATA_SIZE == 0
TTL == 64
\* pnet: Ipv4Flags::DontFragment, IpNextHeaderProtocols::Tcp, TcpFlags::SYN
DontFragment == 2
IpNextHeaderProtocols_Tcp == 6
SYN == 2
WINDOW == 1024
\* pnet: Ipv4Packet::minimum_packet_size(), TcpPacket::minimum_packet_size()
Ipv4MinimumPacketSize == 20
TcpMinimumPacketSize == 20

-----------------------------------------------------------------------------
(* Bounds of the model: how many values of each pool the inputs range over. *)

NumIps == 2
NumPorts == 2
NumRnds == 4
ShortPayloadLen == 4

IpPool == << <<192, 168, 1, 1>>, <<192, 168, 1, 2>>, <<255, 255, 255, 255>>,
             <<0, 0, 0, 0>>, <<142, 251, 209, 131>> >>
PortPool == <<12345, 80, 65535, 0, 54321>>
\* What the three rng.gen() calls of one build return: <<id, seq, ack>>.
RndPool == << <<0, <<0, 0>>, <<0, 0>> >>,
              <<65535, <<0, 0>>, <<0, 0>> >>,
              <<65535, <<57005, 48879>>, <<0, 0>> >>,
              <<65535, <<57005, 48879>>, <<1, 32768>> >>,
              <<4660, <<65535, 65535>>, <<65535, 65535>> >>,
              <<48879, <<32768, 0>>, <<0, 65535>> >> >>

FirstOf(pool, n) == {pool[i] : i \in 1..(IF n < Len(pool) THEN n ELSE Len(pool))}
Ips == FirstOf(IpPool, NumIps)
Ports == FirstOf(PortPool, NumPorts)
Values == {1, 7}
Rnds == {[id |-> t[1], seq |-> t[2], ack |-> t[3]] : t \in FirstOf(RndPool, NumRnds)}
ArgSpace == [value : Values, src_ip : Ips, src_port : Ports,
             dest_ip : Ips, dest_port : Ports]

-----------------------------------------------------------------------------
(* Byte-level helpers.                                                      *)

Zeros(n) == [i \in 1..n |-> 0]
Get(buf, off) == buf[off + 1]
Put(buf, off, v) == [buf EXCEPT ![off + 1] = v]
Hi(w) == (w \div 256) % 256
Lo(w) == w % 256
PutU16(buf, off, w) == Put(Put(buf, off, Hi(w)), off + 1, Lo(w))
GetU16(buf, off) == Get(buf, off) * 256 + Get(buf, off + 1)
PutU32(buf, off, d) == PutU16(PutU16(buf, off, d[1]), off + 2, d[2])
GetU32(buf, off) == <<GetU16(buf, off), GetU16(buf, off + 2)>>
PutAddr(buf, off, a) ==
    Put(Put(Put(Put(buf, off, a[1]), off + 1, a[2]), off + 2, a[3]), off + 3, a[4])
GetAddr(buf, off) ==
    <<Get(buf, off), Get(buf, off + 1), Get(buf, off + 2), Get(buf, off + 3)>>

-----------------------------------------------------------------------------
(* pnet's checksum arithmetic (pnet::util): the sum of the big-endian      *)
(* 16-bit words of the data, one word index skipped, carries folded back,  *)
(* then complemented.                                                      *)

RECURSIVE SumWordsFrom(_, _, _)
SumWordsFrom(data, w, skipword) ==
    IF 2 * w >= Len(data) THEN 0
    ELSE (IF w = skipword THEN 0
          ELSE IF 2 * w + 1 < Len(data) THEN GetU16(data, 2 * w)
          ELSE Get(data, 2 * w) * 256)
         + SumWordsFrom(data, w + 1, skipword)

sum_be_words(data, skipword) == SumWordsFrom(data, 0, skipword)

RECURSIVE FoldCarries(_)
FoldCarries(sum) ==
    IF sum \div 65536 # 0 THEN FoldCarries((sum \div 65536) + (sum % 65536))
    ELSE sum

finalize_checksum(sum) == 65535 - FoldCarries(sum)

ipv4_word_sum(a) == (a[1] * 256 + a[2]) + (a[3] * 256 + a[4])

\* ipv4::checksum: over the first header_length*4 bytes (clipped to the
\* view), the checksum word (index 5) skipped.
Ipv4HeaderLengthBytes(view) ==
    LET length == (Get(view, 0) % 16) * 4
    IN  IF length > Len(view) THEN Len(view)
        ELSE IF length < Ipv4MinimumPacketSize THEN Ipv4MinimumPacketSize
        ELSE length

ipv4_checksum_header(view) ==
    finalize_checksum(sum_be_words(SubSeq(view, 1, Ipv4HeaderLengthBytes(view)), 5))

\* tcp::ipv4_checksum: pseudo-header (source, destination, protocol, length)
\* plus the segment, the checksum word (index 8) skipped.
tcp_ipv4_checksum(seg, source, destination) ==
    finalize_checksum(ipv4_word_sum(source) + ipv4_word_sum(destination)
                      + IpNextHeaderProtocols_Tcp + Len(seg)
                      + sum_be_words(seg, 8))

-----------------------------------------------------------------------------
(* pnet's header views and field setters, as build_syn_packet uses them.   *)

MutableIpv4PacketNew(buf) == Len(buf) >= Ipv4MinimumPacketSize
MutableTcpPacketNew(buf) == Len(buf) >= TcpMinimumPacketSize

set_version(b, v) == Put(b, 0, (Get(b, 0) % 16) + (v % 16) * 16)
set_header_length(b, v) == Put(b, 0, (Get(b, 0) \div 16) * 16 + (v % 16))
set_total_length(b, v) == PutU16(b, 2, v)
set_identification(b, v) == PutU16(b, 4, v)
set_ip_flags(b, v) == Put(b, 6, (Get(b, 6) % 32) + (v % 8) * 32)
set_ttl(b, v) == Put(b, 8, v)
set_next_level_protocol(b, v) == Put(b, 9, v)
set_ip_checksum(b, v) == PutU16(b, 10, v)
set_ip_source(b, a) == PutAddr(b, 12, a)
set_ip_destination(b, a) == PutAddr(b, 16, a)

set_tcp_source(b, v) == PutU16(b, 0, v)
set_tcp_destination(b, v) == PutU16(b, 2, v)
set_sequence(b, d) == PutU32(b, 4, d)
set_acknowledgement(b, d) == PutU32(b, 8, d)
set_data_offset(b, v) == Put(b, 12, (Get(b, 12) % 16) + (v % 16) * 16)
set_reserved(b, v) == Put(b, 12, (Get(b, 12) \div 16) * 16 + (v % 16))
set_tcp_flags(b, v) == Put(b, 13, v % 256)
set_window(b, v) == PutU16(b, 14, v)
set_tcp_checksum(b, v) == PutU16(b, 16, v)
set_urgent_ptr(b, v) == PutU16(b, 18, v)

-----------------------------------------------------------------------------
(* Tcp::build_syn_packet.                                                   *)

\* Mutant: the buffer sized for the IPv4 header alone.
PacketSize_NoTcpHeader == IPV4_HEADER_SIZE + TCP_DATA_SIZE

PacketSize == IPV4_HEADER_SIZE + TCP_HEADER_SIZE + TCP_DATA_SIZE

\* Mutant: the checksum taken before the TTL and the protocol are set.
BuildIpv4Header_ChecksumBeforeTtl(buf, src_ip, dest_ip, id) ==
    LET b1 == set_version(buf, 4)
        b2 == set_header_length(b1, 5)
        b3 == set_ip_source(b2, src_ip)
        b4 == set_ip_destination(b3, dest_ip)
        b5 == set_total_length(b4, 40)
        b6 == set_identification(b5, id)
        b7 == set_ip_flags(b6, DontFragment)
        ip_checksum == ipv4_checksum_header(b7)
        b8 == set_ip_checksum(b7, ip_checksum)
        b9 == set_ttl(b8, TTL)
    IN  set_next_level_protocol(b9, IpNextHeaderProtocols_Tcp)

\* Lines 40-50: the IPv4 header written through a view of the whole buffer.
BuildIpv4Header(buf, src_ip, dest_ip, id) ==
    LET b1 == set_version(buf, 4)
        b2 == set_header_length(b1, 5)
        b3 == set_ip_source(b2, src_ip)
        b4 == set_ip_destination(b3, dest_ip)
        b5 == set_total_length(b4, PacketSize)
        b6 == set_identification(b5, id)
        b7 == set_ip_flags(b6, DontFragment)
        b8 == set_ttl(b7, TTL)
        b9 == set_next_level_protocol(b8, IpNextHeaderProtocols_Tcp)
        ip_checksum == ipv4_checksum_header(b9)
    IN  set_ip_checksum(b9, ip_checksum)

\* Mutant: the checksum taken before the data offset is set.
BuildTcpHeader_ChecksumBeforeOffset(seg, src_port, dest_port, src_ip, dest_ip, seq, ack) ==
    LET t1 == set_tcp_source(seg, src_port)
        t2 == set_tcp_destination(t1, dest_port)
        t3 == set_sequence(t2, seq)
        t4 == set_acknowledgement(t3, ack)
        t5 == set_reserved(t4, 0)
        t6 == set_tcp_flags(t5, SYN)
        t7 == set_urgent_ptr(t6, 0)
        t8 == set_window(t7, WINDOW)
        tcp_checksum == tcp_ipv4_checksum(t8, src_ip, dest_ip)
    IN  set_data_offset(set_tcp_checksum(t8, tcp_checksum), 5)

\* Mutant: the window drawn from the random sequence number.
BuildTcpHeader_RandomWindow(seg, src_port, dest_port, src_ip, dest_ip, seq, ack) ==
    LET t1 == set_tcp_source(seg, src_port)
        t2 == set_tcp_destination(t1, dest_port)
        t3 == set_sequence(t2, seq)
        t4 == set_acknowledgement(t3, ack)
        t5 == set_reserved(t4, 0)
        t6 == set_tcp_flags(t5, SYN)
        t7 == set_urgent_ptr(t6, 0)
        t8 == set_window(t7, seq[2])
        t9 == set_data_offset(t8, 5)
        tcp_checksum == tcp_ipv4_checksum(t9, src_ip, dest_ip)
    IN  set_tcp_checksum(t9, tcp_checksum)

\* Lines 53-64: the TCP header written through a view of buffer[20..].
BuildTcpHeader(seg, src_port, dest_port, src_ip, dest_ip, seq, ack) ==
    LET t1 == set_tcp_source(seg, src_port)
        t2 == set_tcp_destination(t1, dest_port)
        t3 == set_sequence(t2, seq)
        t4 == set_acknowledgement(t3, ack)
        t5 == set_reserved(t4, 0)
        t6 == set_tcp_flags(t5, SYN)
        t7 == set_urgent_ptr(t6, 0)
        t8 == set_window(t7, WINDOW)
        t9 == set_data_offset(t8, 5)
        tcp_checksum == tcp_ipv4_checksum(t9, src_ip, dest_ip)
    IN  set_tcp_checksum(t9, tcp_checksum)

\* The outcome of a call: the returned buffer, or a panic of one of the
\* two unwrap()s (a header view refused as too small).
Panicked == [panicked |-> TRUE, buf |-> <<>>]
Returned(buf) == [panicked |-> FALSE, buf |-> buf]

build_syn_packet(src_ip, src_port, dest_ip, dest_port, rng) ==
    LET tcp_packet == Zeros(PacketSize)
    IN  IF ~MutableIpv4PacketNew(tcp_packet) THEN Panicked
        ELSE LET with_ip == BuildIpv4Header(tcp_packet, src_ip, dest_ip, rng.id)
                 view == SubSeq(with_ip, IPV4_HEADER_SIZE + 1, Len(with_ip))
             IN  IF ~MutableTcpPacketNew(view) THEN Panicked
                 ELSE Returned(SubSeq(with_ip, 1, IPV4_HEADER_SIZE)
                               \o BuildTcpHeader(view, src_port, dest_port,
                                                 src_ip, dest_ip, rng.seq, rng.ack))

-----------------------------------------------------------------------------
(* Options, results and the match specification (Layer).                    *)

None == <<>>
Some(x) == <<x>>
IsSome(o) == Len(o) = 1
Unwrap(o) == o[1]

Ok(v) == [ok |-> TRUE, val |-> v, err |-> ""]
Err(e) == [ok |-> FALSE, val |-> <<>>, err |-> e]

\* Ipv4Addr -> IpAddr (dest_ip.into()).
IntoIpAddr(a) == <<"V4", a>>

\* Mutant: the match data carrying the probe's own addressing.
MatchLayer_NotReversed(src_ip, src_port, dest_ip, dest_port) ==
    [tag |-> "Four",
     transport |-> [network_layer |-> Some([datalink_layer |-> None,
                                            src_addr |-> Some(IntoIpAddr(src_ip)),
                                            dest_addr |-> Some(IntoIpAddr(dest_ip))]),
                    src_port |-> Some(src_port),
                    dest_port |-> Some(dest_port)]]

\* Mutant: the addresses reversed, the ports not.
MatchLayer_PortsNotSwapped(src_ip, src_port, dest_ip, dest_port) ==
    [tag |-> "Four",
     transport |-> [network_layer |-> Some([datalink_layer |-> None,
                                            src_addr |-> Some(IntoIpAddr(dest_ip)),
                                            dest_addr |-> Some(IntoIpAddr(src_ip))]),
                    src_port |-> Some(src_port),
                    dest_port |-> Some(dest_port)]]

\* Lines 82-97: the match data for the reply to a probe.
MatchLayer(src_ip, src_port, dest_ip, dest_port) ==
    LET network_layer == [datalink_layer |-> None,
                          src_addr |-> Some(IntoIpAddr(dest_ip)),
                          dest_addr |-> Some(IntoIpAddr(src_ip))]
        transport_layer == [network_layer |-> Some(network_layer),
                            src_port |-> Some(dest_port),
                            dest_port |-> Some(src_port)]
    IN  [tag |-> "Four", transport |-> transport_layer]

\* Ipv4Packet::new(&packet) of line 107: a view, refused when too short.
Ipv4PacketNew(bytes) == Len(bytes) >= Ipv4MinimumPacketSize

\* Mutant: the duration dropped from a matched answer.
HandleResponse_DropsRtt(ret) ==
    IF ~ret.ok THEN Err(ret.err)
    ELSE IF IsSome(ret.val[1]) THEN Ok(<<Some(Unwrap(ret.val[1])), None>>)
    ELSE Ok(<<None, None>>)

\* Mutant: an engine error folded into the no-answer outcome.
HandleResponse_FoldsError(ret) ==
    IF ~ret.ok THEN Ok(<<None, None>>)
    ELSE IF IsSome(ret.val[1]) THEN Ok(<<Some(Unwrap(ret.val[1])), ret.val[2]>>)
    ELSE Ok(<<None, None>>)

\* Mutant: a payload that does not decode as IPv4 turned into an error.
HandleResponse_DecodeFatal(ret) ==
    IF ~ret.ok THEN Err(ret.err)
    ELSE IF IsSome(ret.val[1])
    THEN IF Ipv4PacketNew(Unwrap(ret.val[1]))
         THEN Ok(<<Some(Unwrap(ret.val[1])), ret.val[2]>>)
         ELSE Err("CantCreateIpv4Packet")
    ELSE Ok(<<None, None>>)

\* Lines 104-117: what send_syn_packet makes of the engine's answer.  The
\* `?` of line 102 hands an engine error to the caller.
HandleResponse(ret) ==
    IF ~ret.ok THEN Err(ret.err)
    ELSE LET response == ret.val[1]
             rtt == ret.val[2]
         IN  IF IsSome(response)
             THEN Ok(<<Some(Unwrap(response)), rtt>>)
             ELSE Ok(<<None, None>>)

\* Mutant: the probe sent again after an engine error.
Reissue_OnError(ret) == ~ret.ok

\* Whether send_syn_packet calls the engine again after an answer: the
\* call of line 102 stands in no loop, and every arm of lines 102-117
\* returns.
Reissue(ret) == FALSE

\* The debug! lines of 109 and 112.
ResponseLog(ret) ==
    IF ret.ok /\ IsSome(ret.val[1])
    THEN IF Ipv4PacketNew(Unwrap(ret.val[1])) THEN <<"TCP response">>
         ELSE <<"No TCP response.">>
    ELSE <<>>

\* Line 102: the arguments send_syn_packet hands to the engine.
EngineCallArgs(a, pkt, lay) ==
    [src |-> a.src_ip, dest |-> a.dest_ip, packet |-> pkt, layer |-> lay,
     value |-> a.value]

-----------------------------------------------------------------------------
(* The transport engine and the match-specification evaluator              *)
(* (NetworkLayer::send_and_receive, osi_layers): design sections 3, 4.3,   *)
(* 4.4 and 7.                                                               *)

EngineErrors == {"CantFindRouterAddress", "CantFindInterface",
                 "CantFindMacAddress", "CantCreateEthernetPacket",
                 "UnexpectedChannelType", "SendError"}
Rtts == {3, 250}

ETHERNET_HEADER_SIZE == 14
EtherTypes_Ipv4 == 2048

\* An Ethernet frame carrying IPv4 + TCP, as the channel delivers it.
Frame(ip_src, sport, ip_dst, dport, flags) ==
    LET eth == PutU16(Zeros(ETHERNET_HEADER_SIZE), 12, EtherTypes_Ipv4)
        ip == set_next_level_protocol(
                set_ip_destination(
                  set_ip_source(
                    set_total_length(
                      set_header_length(set_version(Zeros(20), 4), 5), 40),
                    ip_src),
                  ip_dst),
                IpNextHeaderProtocols_Tcp)
        tcp == set_tcp_flags(
                 set_data_offset(
                   set_tcp_destination(set_tcp_source(Zeros(20), sport), dport), 5),
                 flags)
    IN  eth \o ip \o tcp

FieldAgrees(expected, actual) == ~IsSome(expected) \/ Unwrap(expected) = actual

\* Link layer: the frame must decode as Ethernet; no MAC is decoded here
\* beyond what the specification populates.
MatchLink(link, frame) ==
    /\ Len(frame) >= ETHERNET_HEADER_SIZE
    /\ FieldAgrees(link.src_mac, SubSeq(frame, 7, 12))
    /\ FieldAgrees(link.dest_mac, SubSeq(frame, 1, 6))

\* Network layer: the Ethernet payload must decode as IPv4.
MatchNetwork(net, frame) ==
    /\ Len(frame) >= ETHERNET_HEADER_SIZE + Ipv4MinimumPacketSize
    /\ GetU16(frame, 12) = EtherTypes_Ipv4
    /\ LET ip == SubSeq(frame, ETHERNET_HEADER_SIZE + 1, Len(frame))
       IN  /\ Get(ip, 0) \div 16 = 4
           /\ FieldAgrees(net.src_addr, IntoIpAddr(GetAddr(ip, 12)))
           /\ FieldAgrees(net.dest_addr, IntoIpAddr(GetAddr(ip, 16)))
    /\ IsSome(net.datalink_layer) => MatchLink(Unwrap(net.datalink_layer), frame)

\* Transport layer: the IPv4 payload must decode as TCP.
MatchTransport(tr, frame) ==
    /\ Len(frame) >= ETHERNET_HEADER_SIZE + Ipv4MinimumPacketSize
    /\ GetU16(frame, 12) = EtherTypes_Ipv4
    /\ LET ip == SubSeq(frame, ETHERNET_HEADER_SIZE + 1, Len(frame))
           off == (Get(ip, 0) % 16) * 4
       IN  /\ Get(ip, 9) = IpNextHeaderProtocols_Tcp
           /\ off >= Ipv4MinimumPacketSize
           /\ Len(ip) >= off + TcpMinimumPacketSize
           /\ LET tcp == SubSeq(ip, off + 1, Len(ip))
              IN  /\ FieldAgrees(tr.src_port, GetU16(tcp, 0))
                  /\ FieldAgrees(tr.dest_port, GetU16(tcp, 2))
    /\ IsSome(tr.network_layer) => MatchNetwork(Unwrap(tr.network_layer), frame)

matches(spec, frame) ==
    CASE spec.tag = "Two" -> MatchLink(spec.link, frame)
      [] spec.tag = "Three" -> MatchNetwork(spec.network, frame)
      [] spec.tag = "Four" -> MatchTransport(spec.transport, frame)

TcpFlags_ACK == 16

NoFrame == [kind |-> "none", bytes |-> <<>>]

\* The frames that may arrive while a probe with arguments a is waiting:
\* the reply (SYN+ACK, addressing mirrored), the probe's own frame, the
\* reply with another destination port, and a reply cut short.
InboundFrames(a) ==
    LET reply == Frame(a.dest_ip, a.dest_port, a.src_ip, a.src_port,
                       SYN + TcpFlags_ACK)
    IN  {[kind |-> "mirrored", bytes |-> reply],
         [kind |-> "own",
          bytes |-> Frame(a.src_ip, a.src_port, a.dest_ip, a.dest_port, SYN)],
         [kind |-> "truncated", bytes |-> SubSeq(reply, 1, 30)]}
        \cup {[kind |-> "wrong_dport",
               bytes |-> Frame(a.dest_ip, a.dest_port, a.src_ip, p,
                               SYN + TcpFlags_ACK)]
              : p \in (Ports \cup {54321}) \ {a.src_port}}

\* What the engine hands back of a matched frame: the frame, or a leading
\* part of it (the contract does not fix the payload's extent).
PayloadsOf(frame) == {frame, SubSeq(frame, 1, ShortPayloadLen)}

-----------------------------------------------------------------------------
(* The state machine.                                                       *)

NoArgs == [src |-> <<>>, dest |-> <<>>, packet |-> <<>>, layer |-> <<>>,
           value |-> 0]
NoRnd == [id |-> 0, seq |-> <<0, 0>>, ack |-> <<0, 0>>]
NoRet == Err("none")

Init ==
    /\ args \in ArgSpace
    /\ built = <<>>
    /\ pc = "idle"
    /\ packet = <<>>
    /\ layer = <<>>
    /\ engine_invocations = 0
    /\ engine_args = NoArgs
    /\ last_frame = NoFrame
    /\ last_verdict = FALSE
    /\ engine_ret = NoRet
    /\ result = NoRet
    /\ log = <<>>
    /\ rnd = NoRnd

\* A direct call of Tcp::build_syn_packet (as test_build_syn_packet makes
\* it); the last two calls are kept.
BuildSynPacket ==
    /\ pc = "idle"
    /\ \E r \in Rnds :
         LET rec == [rnd |-> r,
                     out |-> build_syn_packet(args.src_ip, args.src_port,
                                              args.dest_ip, args.dest_port, r)]
         IN  built' = IF Len(built) = 2 THEN <<built[2], rec>>
                      ELSE Append(built, rec)
    /\ UNCHANGED <<args, pc, packet, layer, engine_invocations,
                   engine_args, last_frame, last_verdict, engine_ret,
                   result, log, rnd>>

\* Tcp::send_syn_packet, lines 79-102: build the packet and the match
\* data, then call NetworkLayer::send_and_receive.
SendSynPacket_Call ==
    /\ pc \in {"idle", "returned"}
    /\ \E r \in Rnds :
         LET out == build_syn_packet(args.src_ip, args.src_port,
                                     args.dest_ip, args.dest_port, r)
             lay == MatchLayer(args.src_ip, args.src_port,
                               args.dest_ip, args.dest_port)
         IN  /\ rnd' = r
             /\ last_frame' = NoFrame
             /\ last_verdict' = FALSE
             /\ engine_ret' = NoRet
             /\ result' = NoRet
             /\ log' = <<>>
             /\ IF out.panicked
                THEN /\ pc' = "panicked"
                     /\ UNCHANGED <<packet, layer, engine_invocations, engine_args>>
                ELSE /\ pc' = "engine"
                     /\ packet' = out.buf
                     /\ layer' = lay
                     /\ engine_invocations' = 1
                     /\ engine_args' = EngineCallArgs(args, out.buf, lay)
    /\ UNCHANGED <<args, built>>

\* The engine fails before or while sending (resolution, framing, channel).
EngineFail ==
    /\ pc = "engine"
    /\ \E e \in EngineErrors : engine_ret' = Err(e)
    /\ pc' = "engine_done"
    /\ UNCHANGED <<args, built, packet, layer, engine_invocations,
                   engine_args, last_frame, last_verdict, result,
                   log, rnd>>

\* The receive loop takes one inbound frame and evaluates it against the
\* match specification it was given; the first match ends the loop.
EngineReceive ==
    /\ pc = "engine"
    /\ \E f \in InboundFrames(args) :
         LET verdict == matches(engine_args.layer, f.bytes)
         IN  /\ last_frame' = f
             /\ last_verdict' = verdict
             /\ IF verdict
                THEN /\ \E p \in PayloadsOf(f.bytes), d \in Rtts :
                          engine_ret' = Ok(<<Some(p), Some(d)>>)
                     /\ pc' = "engine_done"
                ELSE UNCHANGED <<engine_ret, pc>>
    /\ UNCHANGED <<args, built, packet, layer, engine_invocations,
                   engine_args, result, log, rnd>>

\* The deadline passes with no match.
EngineTimeout ==
    /\ pc = "engine"
    /\ engine_ret' = Ok(<<None, None>>)
    /\ pc' = "engine_done"
    /\ UNCHANGED <<args, built, packet, layer, engine_invocations,
                   engine_args, last_frame, last_verdict, result,
                   log, rnd>>

\* Tcp::send_syn_packet, lines 102-117: the engine has answered.
SendSynPacket_Return ==
    /\ pc = "engine_done"
    /\ IF Reissue(engine_ret)
       THEN /\ pc' = "engine"
            /\ engine_invocations' = engine_invocations + 1
            /\ UNCHANGED <<result, log>>
       ELSE /\ result' = HandleResponse(engine_ret)
            /\ log' = ResponseLog(engine_ret)
            /\ pc' = "returned"
            /\ UNCHANGED engine_invocations
    /\ UNCHANGED <<args, built, packet, layer, engine_args, last_frame,
                   last_verdict, engine_ret, rnd>>

Next ==
    \/ SendSynPacket_Call
    \/ EngineFail
    \/ EngineReceive
    \/ EngineTimeout
    \/ SendSynPacket_Return

Spec == Init /\ [][Next]_vars

NextBuild == BuildSynPacket

SpecBuild == Init /\ [][NextBuild]_vars

-----------------------------------------------------------------------------
(* Decoding, as a receiver of the packet (and test_build_syn_packet) does. *)

get_version(ip) == Get(ip, 0) \div 16
get_header_length(ip) == Get(ip, 0) % 16
get_total_length(ip) == GetU16(ip, 2)
get_identification(ip) == GetU16(ip, 4)
get_ip_flags(ip) == Get(ip, 6) \div 32
get_ttl(ip) == Get(ip, 8)
get_next_level_protocol(ip) == Get(ip, 9)
get_ip_checksum(ip) == GetU16(ip, 10)
get_ip_source(ip) == GetAddr(ip, 12)
get_ip_destination(ip) == GetAddr(ip, 16)

get_tcp_source(tcp) == GetU16(tcp, 0)
get_tcp_destination(tcp) == GetU16(tcp, 2)
get_data_offset(tcp) == Get(tcp, 12) \div 16
get_reserved(tcp) == Get(tcp, 12) % 16
get_tcp_flags(tcp) == Get(tcp, 13)
get_window(tcp) == GetU16(tcp, 14)
get_tcp_checksum(tcp) == GetU16(tcp, 16)
get_urgent_ptr(tcp) == GetU16(tcp, 18)

IpPart(buf) == SubSeq(buf, 1, IPV4_HEADER_SIZE)
TcpPart(buf) == SubSeq(buf, IPV4_HEADER_SIZE + 1, Len(buf))

\* A receiver's verification: the one's-complement sum over the whole
\* header, checksum field included, complements to zero.
Ipv4ChecksumRecomputesToZero(hdr) ==
    finalize_checksum(sum_be_words(hdr, Len(hdr))) = 0

\* The same over the pseudo-header and the whole segment.
TcpChecksumValidates(seg, source, destination) ==
    finalize_checksum(ipv4_word_sum(source) + ipv4_word_sum(destination)
                      + 6 + Len(seg) + sum_be_words(seg, Len(seg))) = 0

BuiltRecords == {built[i] : i \in 1..Len(built)}

-----------------------------------------------------------------------------
(* Claims about Tcp::build_syn_packet, checked under SpecBuild.             *)

\* C1: the first 20 bytes of every buffer build_syn_packet returns decode
\* as an IPv4 header with version 4, source = src_ip, destination =
\* dest_ip, next-level protocol TCP, and a checksum with which the sum
\* over the whole 20-byte header recomputes to zero.
C1_Ipv4HeaderWellFormed ==
    \A rec \in BuiltRecords :
        /\ ~rec.out.panicked
        /\ Len(rec.out.buf) >= 20
        /\ LET ip == SubSeq(rec.out.buf, 1, 20)
           IN  /\ get_version(ip) = 4
               /\ get_ip_source(ip) = args.src_ip
               /\ get_ip_destination(ip) = args.dest_ip
               /\ get_next_level_protocol(ip) = 6
               /\ Ipv4ChecksumRecomputesToZero(ip)

\* A build whose header sum needs carries folded: distinct addresses and
\* an identification of 0xFFFF, with a non-zero stored checksum.
C1_Witness ==
    \E rec \in BuiltRecords :
        /\ ~rec.out.panicked
        /\ args.src_ip # args.dest_ip
        /\ rec.rnd.id = 65535
        /\ get_identification(rec.out.buf) = 65535
        /\ get_ip_checksum(rec.out.buf) # 0

\* C2: bytes 20..40 of every buffer decode as a TCP header with source
\* port = src_port, destination port = dest_port, flags exactly SYN, and a
\* checksum valid against the pseudo-header of the addresses written into
\* the IPv4 header.
C2_TcpHeaderWellFormed ==
    \A rec \in BuiltRecords :
        /\ ~rec.out.panicked
        /\ Len(rec.out.buf) = 40
        /\ LET ip == SubSeq(rec.out.buf, 1, 20)
               tcp == SubSeq(rec.out.buf, 21, 40)
           IN  /\ get_tcp_source(tcp) = args.src_port
               /\ get_tcp_destination(tcp) = args.dest_port
               /\ get_tcp_flags(tcp) = 2
               /\ get_ip_source(ip) = args.src_ip
               /\ get_ip_destination(ip) = args.dest_ip
               /\ TcpChecksumValidates(tcp, get_ip_source(ip),
                                       get_ip_destination(ip))

\* A build with distinct ports and non-zero sequence and acknowledgment
\* numbers, whose segment carries them.
C2_Witness ==
    \E rec \in BuiltRecords :
        /\ ~rec.out.panicked
        /\ args.src_port # args.dest_port
        /\ rec.rnd.seq = <<57005, 48879>>
        /\ rec.rnd.ack = <<1, 32768>>
        /\ GetU32(TcpPart(rec.out.buf), 4) = <<57005, 48879>>
        /\ GetU32(TcpPart(rec.out.buf), 8) = <<1, 32768>>

\* C8: the buffer is exactly 40 bytes and its fixed fields agree with
\* that: IPv4 header length 5, total length 40 = the buffer's length,
\* don't-fragment set, TTL 64; TCP data offset 5, window 1024, reserved 0,
\* urgent pointer 0; and neither header view is refused (no panic).
C8_FixedLayout ==
    \A rec \in BuiltRecords :
        /\ ~rec.out.panicked
        /\ Len(rec.out.buf) = 40
        /\ LET ip == SubSeq(rec.out.buf, 1, 20)
               tcp == SubSeq(rec.out.buf, 21, 40)
           IN  /\ get_header_length(ip) = 5
               /\ get_total_length(ip) = 40
               /\ get_total_length(ip) = Len(rec.out.buf)
               /\ get_ip_flags(ip) = 2
               /\ Get(ip, 6) % 32 = 0 /\ Get(ip, 7) = 0
               /\ get_ttl(ip) = 64
               /\ get_data_offset(tcp) = 5
               /\ get_window(tcp) = 1024
               /\ get_reserved(tcp) = 0
               /\ get_urgent_ptr(tcp) = 0

\* A returned buffer of 40 bytes, built with non-zero random values.
C8_Witness ==
    \E rec \in BuiltRecords :
        /\ ~rec.out.panicked
        /\ Len(rec.out.buf) = 40
        /\ rec.rnd = [id |-> 65535, seq |-> <<57005, 48879>>,
                      ack |-> <<1, 32768>>]

\* The offsets of the fields drawn at random and of the two checksums.
RandomOffsets == {4, 5} \cup {10, 11} \cup (24..27) \cup (28..31) \cup {36, 37}

\* C10: two calls with the same arguments return buffers that differ at
\* most in the identification, the sequence number, the acknowledgment
\* number and the two checksums; with the same random values they are
\* identical.
C10_DeterminismModuloRandom ==
    Len(built) = 2 =>
        LET a == built[1].out
            b == built[2].out
        IN  /\ ~a.panicked /\ ~b.panicked
            /\ Len(a.buf) = Len(b.buf)
            /\ \A i \in 1..Len(a.buf) :
                   a.buf[i] # b.buf[i] => (i - 1) \in RandomOffsets
            /\ built[1].rnd = built[2].rnd => a.buf = b.buf

\* Two calls whose random values differ in all three fields, and whose
\* buffers differ in each random field.
C10_Witness ==
    /\ Len(built) = 2
    /\ ~built[1].out.panicked /\ ~built[2].out.panicked
    /\ LET a == built[1].out.buf
           b == built[2].out.buf
       IN  /\ GetU16(a, 4) # GetU16(b, 4)
           /\ GetU32(a, 24) # GetU32(b, 24)
           /\ GetU32(a, 28) # GetU32(b, 28)
           /\ GetU16(a, 36) # GetU16(b, 36)

-----------------------------------------------------------------------------
(* Claims about Tcp::send_syn_packet, checked under Spec.                   *)

InCall == pc \in {"engine", "engine_done", "returned"}
AddressingDiffers == args.src_ip # args.dest_ip \/ args.src_port # args.dest_port

\* C3: the match specification handed to the engine is the reverse of the
\* outbound packet's addressing: anchored at the transport layer, expecting
\* source port = dest_port and destination port = src_port, its nested
\* network layer expecting source = dest_ip and destination = src_ip, while
\* the packet of the same call carries src_ip:src_port -> dest_ip:dest_port.
C3_MatchSpecReversed ==
    InCall =>
        LET spec == engine_args.layer
            pkt == engine_args.packet
        IN  /\ spec.tag = "Four"
            /\ spec.transport.src_port = Some(args.dest_port)
            /\ spec.transport.dest_port = Some(args.src_port)
            /\ IsSome(spec.transport.network_layer)
            /\ Unwrap(spec.transport.network_layer).src_addr
                 = Some(<<"V4", args.dest_ip>>)
            /\ Unwrap(spec.transport.network_layer).dest_addr
                 = Some(<<"V4", args.src_ip>>)
            /\ get_ip_source(IpPart(pkt)) = args.src_ip
            /\ get_ip_destination(IpPart(pkt)) = args.dest_ip
            /\ get_tcp_source(TcpPart(pkt)) = args.src_port
            /\ get_tcp_destination(TcpPart(pkt)) = args.dest_port

\* The engine has been called for a probe whose two ends differ in address
\* and in port.
C3_Witness ==
    /\ pc = "engine"
    /\ args.src_ip # args.dest_ip
    /\ args.src_port # args.dest_port
    /\ engine_args.layer.transport.src_port = Some(args.dest_port)

C5_ErrorsPropagate ==
    pc = "returned" =>
        /\ ~engine_ret.ok => (~result.ok /\ result.err = engine_ret.err)
        /\ result = Ok(<<None, None>>) =>
               (engine_ret.ok /\ ~IsSome(engine_ret.val[1]))

\* A call has returned the engine's SendError.
C5_Witness ==
    /\ pc = "returned"
    /\ engine_ret = Err("SendError")
    /\ result = Err("SendError")

\* C6: a matched payload is returned as Ok((Some(payload), rtt)) with the
\* payload and the duration as the engine gave them, whether or not the
\* payload decodes as an IPv4 packet.
C6_PayloadPassedThrough ==
    (pc = "returned" /\ engine_ret.ok /\ IsSome(engine_ret.val[1])) =>
        /\ result.ok
        /\ result.val = <<engine_ret.val[1], engine_ret.val[2]>>

\* A call has returned a payload too short to decode as IPv4, and logged so.
C6_Witness ==
    /\ pc = "returned"
    /\ engine_ret.ok
    /\ IsSome(engine_ret.val[1])
    /\ Len(Unwrap(engine_ret.val[1])) < 20
    /\ log = <<"No TCP response.">>
    /\ result.ok
    /\ result.val[1] = engine_ret.val[1]

\* C7: the match specification derived for a probe, evaluated literally,
\* accepts the mirrored frame, rejects that frame with any other TCP
\* destination port, and rejects the probe's own frame whenever the two
\* ends' addressing differs.
C7_RoundTrip ==
    (InCall /\ last_frame.kind # "none") =>
        /\ last_verdict = matches(engine_args.layer, last_frame.bytes)
        /\ last_frame.kind = "mirrored" => last_verdict
        /\ last_frame.kind = "wrong_dport" => ~last_verdict
        /\ (last_frame.kind = "own" /\ AddressingDiffers) => ~last_verdict

\* The engine has evaluated the mirrored frame of a probe whose two ends
\* differ, and found a match.
C7_Witness ==
    /\ InCall
    /\ last_frame.kind = "mirrored"
    /\ last_verdict
    /\ args.src_ip # args.dest_ip
    /\ args.src_port # args.dest_port

\* C9: each call of send_syn_packet calls the engine exactly once, after
\* the packet and the match specification are built, with the caller's
\* src_ip, dest_ip and value and the whole 40-byte packet built for the
\* same arguments; the probe is not sent again after an error or after no
\* match.
C9_EngineCalledOnce ==
    /\ pc = "idle" => engine_invocations = 0
    /\ InCall =>
        /\ engine_invocations = 1
        /\ engine_args.src = args.src_ip
        /\ engine_args.dest = args.dest_ip
        /\ engine_args.value = args.value
        /\ Len(engine_args.packet) = 40
        /\ engine_args.packet = packet
        /\ engine_args.layer = layer
        /\ packet = build_syn_packet(args.src_ip, args.src_port,
                                     args.dest_ip, args.dest_port, rnd).buf

\* A call has returned an engine error, the engine called once.
C9_Witness ==
    /\ pc = "returned"
    /\ ~result.ok
    /\ engine_invocations = 1
    /\ Len(engine_args.packet) = 40

====
